---- MODULE Spec2Model ----
(***************************************************************************)
(* Coordinates API (main.py): a FastAPI process with three store-touching  *)
(* handlers (add_coordinate, delete_coordinate, get_all_coordinates), the  *)
(* startup routine init_db, and the context manager get_db_connection,     *)
(* over one PostgreSQL table `coordinates` whose id column is SERIAL.      *)
(*                                                                         *)
(* The handlers are `async def` coroutines whose bodies contain no await:  *)
(* every psycopg2 call blocks the event-loop thread, so a handler runs     *)
(* from its first statement to its response before the loop can start the  *)
(* next one.  `running` is the coroutine the loop is executing.            *)
(***************************************************************************)
EXTENDS Integers, Sequences, FiniteSets, TLC

\* ---------------------------------------------------------------- bounds
MaxRequests == 2
MaxCallers == 2
MaxInitSeq == 1

\* ------------------------------------------------------------- vocabulary
InitDb == 0
Callers == 1..MaxCallers
Users == {InitDb} \cup Callers

NoConn == 0
ConnIds == 1..(MaxRequests + 1)

\* Request bodies accepted by the Coordinate model (name is Optional).
Coordinate ==
    { [latitude |-> 37, longitude |-> -122, name |-> "SF"],
      [latitude |-> 0, longitude |-> 0, name |-> "None"] }

CoordinateResponse(id, c) ==
    [id |-> id, latitude |-> c.latitude, longitude |-> c.longitude, name |-> c.name]

\* psycopg2.Error and the subclass init_db names; HTTPException is FastAPI's.
\* connect() and a broken session raise OperationalError; a statement that
\* the server rejects raises another subclass (DatabaseError stands for them).
Psycopg2Errors == {"OperationalError", "DatabaseError"}
StatementErrors == {"DatabaseError"}
IsOperationalError(e) == e = "OperationalError"
IsPsycopg2Error(e) == e \in Psycopg2Errors

Ids(rows) == {x.id : x \in rows}

Max(S) == CHOOSE m \in S : \A y \in S : y <= m

OrderByIdDesc(rows) ==
    LET RECURSIVE desc(_)
        desc(S) == IF S = {} THEN <<>>
                   ELSE LET m == CHOOSE x \in S : \A y \in S : x.id >= y.id
                        IN  <<m>> \o desc(S \ {m})
    IN  desc(rows)

\* ORDER BY id
RECURSIVE OrderById(_)
OrderById(rows) ==
    IF rows = {} THEN <<>>
    ELSE LET m == CHOOSE x \in rows : \A y \in rows : x.id <= y.id
         IN  <<m>> \o OrderById(rows \ {m})

Range(s) == {s[i] : i \in 1..Len(s)}

VARIABLES
    phase,        \* "starting" | "serving" | "failed"  (lifespan)
    tableExists,  \* store: the coordinates table is present (committed)
    table,        \* store: committed rows of coordinates
    seq,          \* store: last value handed out by coordinates_id_seq
    txn,          \* store: uncommitted work of each connection's transaction
    open,         \* store: connections currently open
    nreq,         \* number of requests that have arrived
    req,          \* the parsed request of each running handler
    running,      \* the coroutine occupying the event loop ({} = idle)
    pc,           \* each user's position in its handler
    conn,         \* get_db_connection's local `conn` of each user
    exc,          \* the exception in flight in each user
    rowcount,     \* cur.rowcount of each user's cursor
    fetched,      \* rows held by each user's cursor / local result
    \* ---- history (not read by the program)
    preRows,      \* rows the store held when the process started
    preSeq,       \* value of the sequence when the process started
    opener,       \* who opened each connection
    faulted,      \* a storage call of this user's handler raised
    issued,       \* ids drawn from the sequence, in order
    returned,     \* ids answered by 201 responses, in order
    deleted,      \* ids whose DELETE was answered 204
    met,          \* per waiting caller: ids created (201) while it waited
    started,      \* at the running handler's start: table, issued, returned, deleted
    last          \* the response most recently sent, with its request

store == <<tableExists, table, seq, txn, open>>
locals == <<conn, exc, rowcount, fetched>>
history == <<preRows, preSeq, opener, faulted, issued, returned, deleted, met, started, last>>
vars == <<phase, store, nreq, req, running, pc, locals, history>>

EmptyTxn == [ins |-> {}, del |-> {}, ddl |-> FALSE]

\* Rows a statement on connection c sees (READ COMMITTED plus own changes).
Visible(c) == {x \in table : x.id \notin txn[c].del} \cup txn[c].ins

NoSnapshot == [table |-> {}, issued |-> <<>>, returned |-> <<>>, deleted |-> {}]

NoRequest == [kind |-> "none", body |-> CHOOSE c \in Coordinate : TRUE, id |-> 0]

NoResponse ==
    [caller |-> InitDb, req |-> NoRequest, status |-> "none", body |-> <<>>,
     faulted |-> FALSE, met |-> {}, before |-> NoSnapshot, after |-> {}]

Init ==
    /\ phase = "starting"
    /\ tableExists \in BOOLEAN
    /\ seq \in 0..MaxInitSeq
    /\ table \in SUBSET {CoordinateResponse(i, NoRequest.body) : i \in 1..seq}
    /\ (~tableExists => table = {} /\ seq = 0)
    /\ txn = [c \in ConnIds |-> EmptyTxn]
    /\ open = {}
    /\ nreq = 0
    /\ req = [r \in Callers |-> NoRequest]
    /\ running = {}
    /\ pc = [u \in Users |-> IF u = InitDb THEN "connect" ELSE "idle"]
    /\ conn = [u \in Users |-> NoConn]
    /\ exc = [u \in Users |-> "none"]
    /\ rowcount = [u \in Users |-> 0]
    /\ fetched = [u \in Users |-> <<>>]
    /\ preRows = table
    /\ preSeq = seq
    /\ opener = [c \in ConnIds |-> InitDb]
    /\ faulted = [u \in Users |-> FALSE]
    /\ issued = <<>>
    /\ returned = <<>>
    /\ deleted = {}
    /\ met = [r \in Callers |-> {}]
    /\ started = NoSnapshot
    /\ last = NoResponse

\* ------------------------------------------------------- store primitives

\* nextval('coordinates_id_seq'): the DEFAULT of the SERIAL id column.
NextValMaxPlusOne == IF table = {} THEN 1 ELSE Max(Ids(table)) + 1
NextVal == seq + 1

\* conn.commit(): the transaction's changes become the committed table.
CommittedWithoutDeletes(c) == table \cup txn[c].ins
CommittedWithoutInserts(c) == {x \in table : x.id \notin txn[c].del}
Committed(c) == {x \in table : x.id \notin txn[c].del} \cup txn[c].ins

\* conn.close(): the server ends the session; an open transaction is aborted.
ConnCloseLeak(c) == open
ConnClose(c) == open \ {c}

TableAfterCloseCommits(c) == Committed(c)
TableAfterClose(c) == table

\* `if cur.rowcount == 0` in delete_coordinate.
NoRowDeletedNever(n) == n < 0
NoRowDeleted(n) == n = 0

\* process outcome of lifespan: init_db re-raises whatever it caught.
LifespanSwallowsNonOperational(e) == IF IsOperationalError(e) THEN "failed" ELSE "serving"
Lifespan(e) == IF e = "none" THEN "serving" ELSE "failed"

Active(u) == IF u = InitDb THEN phase = "starting" ELSE u \in running

\* A storage call of u raises e: control leaves the with-body for the
\* context manager's except clause.
Raise(u, e) ==
    /\ exc' = [exc EXCEPT ![u] = e]
    /\ faulted' = [faulted EXCEPT ![u] = TRUE]
    /\ pc' = [pc EXCEPT ![u] = "cm_except"]

hist_keep == <<preRows, preSeq, issued, returned, deleted, met, started, last>>

\* ------------------------------------------------------ get_db_connection

\* psycopg2.connect returns a new connection object: one that is not any
\* connection still open.
NewConn == CHOOSE c \in ConnIds : c \notin open /\ \A d \in ConnIds \ open : c <= d

\* conn = psycopg2.connect(**DB_CONFIG); yield conn
Connect(u) ==
    /\ Active(u)
    /\ pc[u] = "connect"
    /\ \/ /\ open' = open \cup {NewConn}
          /\ conn' = [conn EXCEPT ![u] = NewConn]
          /\ opener' = [opener EXCEPT ![NewConn] = u]
          /\ pc' = [pc EXCEPT ![u] = IF u = InitDb THEN "ping" ELSE "execute"]
          /\ UNCHANGED <<exc, faulted>>
       \/ /\ Raise(u, "OperationalError")
          /\ UNCHANGED <<open, conn, opener>>
    /\ UNCHANGED <<phase, tableExists, table, seq, txn, nreq, req, running,
                   rowcount, fetched, hist_keep>>

\* except psycopg2.Error as e: if conn: conn.rollback(); raise e
CmExcept(u) ==
    /\ Active(u)
    /\ pc[u] = "cm_except"
    /\ pc' = [pc EXCEPT ![u] = "cm_finally"]
    /\ IF IsPsycopg2Error(exc[u]) /\ conn[u] # NoConn
       THEN \/ /\ txn' = [txn EXCEPT ![conn[u]] = EmptyTxn]
               /\ UNCHANGED <<exc, faulted>>
            \/ /\ exc' = [exc EXCEPT ![u] = "OperationalError"]
               /\ faulted' = [faulted EXCEPT ![u] = TRUE]
               /\ UNCHANGED txn
       ELSE UNCHANGED <<txn, exc, faulted>>
    /\ UNCHANGED <<phase, tableExists, table, seq, open, nreq, req, running,
                   conn, rowcount, fetched, opener, hist_keep>>

\* finally: if conn: conn.close()
CmFinally(u) ==
    /\ Active(u)
    /\ pc[u] = "cm_finally"
    /\ pc' = [pc EXCEPT ![u] = "exit"]
    /\ IF conn[u] # NoConn
       THEN /\ open' = ConnClose(conn[u])
            /\ table' = TableAfterClose(conn[u])
            /\ txn' = [txn EXCEPT ![conn[u]] = EmptyTxn]
       ELSE UNCHANGED <<open, table, txn>>
    /\ UNCHANGED <<phase, tableExists, seq, nreq, req, running,
                   conn, exc, rowcount, fetched, opener, faulted, hist_keep>>

\* ----------------------------------------------------------------- init_db

\* cur.execute("SELECT 1")
init_db_ping ==
    /\ phase = "starting"
    /\ pc[InitDb] = "ping"
    /\ \/ /\ pc' = [pc EXCEPT ![InitDb] = "create_table"]
          /\ UNCHANGED <<exc, faulted>>
       \/ \E e \in Psycopg2Errors : Raise(InitDb, e)
    /\ UNCHANGED <<phase, store, nreq, req, running, conn, rowcount, fetched,
                   opener, hist_keep>>

\* cur.execute("CREATE TABLE IF NOT EXISTS coordinates (...)")
init_db_create_table ==
    /\ phase = "starting"
    /\ pc[InitDb] = "create_table"
    /\ \/ /\ txn' = [txn EXCEPT ![conn[InitDb]].ddl = ~tableExists]
          /\ pc' = [pc EXCEPT ![InitDb] = "commit"]
          /\ UNCHANGED <<exc, faulted>>
       \/ /\ \E e \in Psycopg2Errors : Raise(InitDb, e)
          /\ UNCHANGED txn
    /\ UNCHANGED <<phase, tableExists, table, seq, open, nreq, req, running,
                   conn, rowcount, fetched, opener, hist_keep>>

\* conn.commit()
init_db_commit ==
    /\ phase = "starting"
    /\ pc[InitDb] = "commit"
    /\ \/ /\ tableExists' = (tableExists \/ txn[conn[InitDb]].ddl)
          /\ table' = Committed(conn[InitDb])
          /\ txn' = [txn EXCEPT ![conn[InitDb]] = EmptyTxn]
          /\ pc' = [pc EXCEPT ![InitDb] = "cm_finally"]
          /\ UNCHANGED <<exc, faulted>>
       \/ /\ \E e \in Psycopg2Errors : Raise(InitDb, e)
          /\ UNCHANGED <<tableExists, table, txn>>
    /\ UNCHANGED <<phase, seq, open, nreq, req, running,
                   conn, rowcount, fetched, opener, hist_keep>>

\* except ...: raise  -- and lifespan: the application serves only after
\* init_db() returned.
init_db_exit ==
    /\ phase = "starting"
    /\ pc[InitDb] = "exit"
    /\ phase' = Lifespan(exc[InitDb])
    /\ pc' = [pc EXCEPT ![InitDb] = "done"]
    /\ conn' = [conn EXCEPT ![InitDb] = NoConn]
    /\ UNCHANGED <<store, nreq, req, running, exc, rowcount, fetched,
                   history>>

\* ------------------------------------------------------- request handling

\* Path parameters worth telling apart for DELETE /coordinates/{coordinate_id}:
\* a negative number, every id handed out so far, and one not yet handed out.
CoordinateIds == {-1} \cup 1..(seq + 1)

Parsed ==
    {[kind |-> "add", body |-> c, id |-> 0] : c \in Coordinate}
    \cup {[NoRequest EXCEPT !.kind = "delete", !.id = i] : i \in CoordinateIds}
    \cup {[NoRequest EXCEPT !.kind = "list"]}

\* A caller sends a request to one of the three routes (a caller has one
\* request outstanding at a time; different callers send in parallel).
Arrive(r) ==
    /\ phase = "serving"
    /\ nreq < MaxRequests
    /\ pc[r] = "idle"
    /\ nreq' = nreq + 1
    /\ pc' = [pc EXCEPT ![r] = "pending"]
    /\ UNCHANGED <<phase, store, req, running, locals, history>>

\* The event loop parses a waiting request and starts its coroutine.  The
\* handlers never await, so the loop is free only between handlers.
Dispatch(r) ==
    /\ phase = "serving"
    /\ running = {}
    /\ pc[r] = "pending"
    /\ running' = {r}
    /\ \E q \in Parsed : req' = [req EXCEPT ![r] = q]
    /\ pc' = [pc EXCEPT ![r] = "connect"]
    /\ started' = [table |-> table, issued |-> issued,
                    returned |-> returned, deleted |-> deleted]
    /\ UNCHANGED <<phase, store, nreq, locals,
                   preRows, preSeq, opener, faulted, issued, returned, deleted, met, last>>

\* The handler's coroutine ends: status s and body b go to the client.
Answer(r, s, b) ==
    /\ last' = [caller |-> r, req |-> req[r], status |-> s, body |-> b,
                faulted |-> faulted[r], met |-> met[r],
                before |-> started, after |-> table]
    /\ returned' = IF s = "201" THEN Append(returned, b[1].id) ELSE returned
    /\ deleted' = IF s = "204" THEN deleted \cup {req[r].id} ELSE deleted
    /\ met' = [q \in Callers |->
                 IF q # r /\ pc[q] = "pending" /\ s = "201"
                 THEN met[q] \cup {b[1].id}
                 ELSE IF q = r THEN {} ELSE met[q]]
    /\ started' = NoSnapshot
    /\ pc' = [pc EXCEPT ![r] = "idle"]
    /\ running' = {}
    /\ req' = [req EXCEPT ![r] = NoRequest]
    /\ conn' = [conn EXCEPT ![r] = NoConn]
    /\ exc' = [exc EXCEPT ![r] = "none"]
    /\ rowcount' = [rowcount EXCEPT ![r] = 0]
    /\ fetched' = [fetched EXCEPT ![r] = <<>>]
    /\ faulted' = [faulted EXCEPT ![r] = FALSE]
    /\ UNCHANGED <<phase, store, nreq, preRows, preSeq, opener, issued>>

In(r, kind, at) == r \in running /\ req[r].kind = kind /\ pc[r] = at

\* ---------------------------------------------------------- add_coordinate

\* cur.execute("INSERT INTO coordinates (...) VALUES (...) RETURNING ...")
add_coordinate_execute(r) ==
    /\ In(r, "add", "execute")
    /\ \/ LET id == NextVal
              row == CoordinateResponse(id, req[r].body)
          IN  /\ seq' = id
              /\ issued' = Append(issued, id)
              /\ IF id \in Ids(Visible(conn[r]))
                 THEN \* PRIMARY KEY: duplicate key value (IntegrityError)
                      /\ Raise(r, "DatabaseError")
                      /\ UNCHANGED <<txn, fetched>>
                 ELSE /\ txn' = [txn EXCEPT ![conn[r]].ins = @ \cup {row}]
                      /\ fetched' = [fetched EXCEPT ![r] = <<row>>]
                      /\ pc' = [pc EXCEPT ![r] = "fetchone"]
                      /\ UNCHANGED <<exc, faulted>>
       \/ /\ \E e \in StatementErrors : Raise(r, e)
          /\ \/ UNCHANGED <<seq, issued>>
             \/ seq' = NextVal /\ issued' = Append(issued, NextVal)
          /\ UNCHANGED <<txn, fetched>>
    /\ UNCHANGED <<phase, tableExists, table, open, nreq, req, running,
                   conn, rowcount,
                   preRows, preSeq, opener, returned, deleted, met, started, last>>

\* result = cur.fetchone()
add_coordinate_fetchone(r) ==
    /\ In(r, "add", "fetchone")
    /\ \/ /\ pc' = [pc EXCEPT ![r] = "commit"]
          /\ UNCHANGED <<exc, faulted>>
       \/ \E e \in StatementErrors : Raise(r, e)
    /\ UNCHANGED <<phase, store, nreq, req, running, conn, rowcount, fetched,
                   opener, hist_keep>>

\* conn.commit(); return result
add_coordinate_commit(r) ==
    /\ In(r, "add", "commit")
    /\ \/ /\ table' = Committed(conn[r])
          /\ txn' = [txn EXCEPT ![conn[r]] = EmptyTxn]
          /\ pc' = [pc EXCEPT ![r] = "cm_finally"]
          /\ UNCHANGED <<exc, faulted>>
       \/ /\ \E e \in StatementErrors : Raise(r, e)
          /\ UNCHANGED <<table, txn>>
    /\ UNCHANGED <<phase, tableExists, seq, open, nreq, req, running,
                   conn, rowcount, fetched, opener, hist_keep>>

\* status_code=201 on return; except psycopg2.Error: HTTPException(500)
add_coordinate_exit(r) ==
    /\ In(r, "add", "exit")
    /\ IF exc[r] = "none"
       THEN Answer(r, "201", fetched[r])
       ELSE Answer(r, IF IsPsycopg2Error(exc[r]) THEN "500" ELSE "uncaught", <<>>)

\* ------------------------------------------------------- delete_coordinate

\* cur.execute("DELETE FROM coordinates WHERE id = %s", (coordinate_id,))
delete_coordinate_execute(r) ==
    /\ In(r, "delete", "execute")
    /\ \/ LET hit == {x \in Visible(conn[r]) : x.id = req[r].id}
          IN  /\ rowcount' = [rowcount EXCEPT ![r] = Cardinality(hit)]
              /\ txn' = [txn EXCEPT ![conn[r]].del = @ \cup Ids(hit)]
              /\ pc' = [pc EXCEPT ![r] = "rowcount"]
              /\ UNCHANGED <<exc, faulted>>
       \/ /\ \E e \in StatementErrors : Raise(r, e)
          /\ UNCHANGED <<rowcount, txn>>
    /\ UNCHANGED <<phase, tableExists, table, seq, open, nreq, req, running,
                   conn, fetched, opener, hist_keep>>

\* if cur.rowcount == 0: raise HTTPException(404)
delete_coordinate_rowcount(r) ==
    /\ In(r, "delete", "rowcount")
    /\ IF NoRowDeleted(rowcount[r])
       THEN /\ exc' = [exc EXCEPT ![r] = "HTTPException"]
            /\ pc' = [pc EXCEPT ![r] = "cm_except"]
       ELSE /\ pc' = [pc EXCEPT ![r] = "commit"]
            /\ UNCHANGED exc
    /\ UNCHANGED <<phase, store, nreq, req, running, conn, rowcount, fetched,
                   history>>

\* conn.commit()
delete_coordinate_commit(r) ==
    /\ In(r, "delete", "commit")
    /\ \/ /\ table' = Committed(conn[r])
          /\ txn' = [txn EXCEPT ![conn[r]] = EmptyTxn]
          /\ pc' = [pc EXCEPT ![r] = "cm_finally"]
          /\ UNCHANGED <<exc, faulted>>
       \/ /\ \E e \in StatementErrors : Raise(r, e)
          /\ UNCHANGED <<table, txn>>
    /\ UNCHANGED <<phase, tableExists, seq, open, nreq, req, running,
                   conn, rowcount, fetched, opener, hist_keep>>

\* status_code=204; except HTTPException: raise; except psycopg2.Error: 500
delete_coordinate_exit(r) ==
    /\ In(r, "delete", "exit")
    /\ Answer(r, IF exc[r] = "none" THEN "204"
                 ELSE IF exc[r] = "HTTPException" THEN "404"
                 ELSE IF IsPsycopg2Error(exc[r]) THEN "500"
                 ELSE "uncaught", <<>>)

\* ----------------------------------------------------- get_all_coordinates

\* cur.execute("SELECT id, latitude, longitude, name FROM coordinates ORDER BY id")
get_all_coordinates_execute(r) ==
    /\ In(r, "list", "execute")
    /\ \/ /\ fetched' = [fetched EXCEPT ![r] = OrderById(Visible(conn[r]))]
          /\ pc' = [pc EXCEPT ![r] = "fetchall"]
          /\ UNCHANGED <<exc, faulted>>
       \/ /\ \E e \in StatementErrors : Raise(r, e)
          /\ UNCHANGED fetched
    /\ UNCHANGED <<phase, store, nreq, req, running, conn, rowcount,
                   opener, hist_keep>>

\* results = cur.fetchall(); return results
get_all_coordinates_fetchall(r) ==
    /\ In(r, "list", "fetchall")
    /\ \/ /\ pc' = [pc EXCEPT ![r] = "cm_finally"]
          /\ UNCHANGED <<exc, faulted>>
       \/ \E e \in StatementErrors : Raise(r, e)
    /\ UNCHANGED <<phase, store, nreq, req, running, conn, rowcount, fetched,
                   opener, hist_keep>>

\* 200 on return; except psycopg2.Error: HTTPException(500)
get_all_coordinates_exit(r) ==
    /\ In(r, "list", "exit")
    /\ IF exc[r] = "none"
       THEN Answer(r, "200", fetched[r])
       ELSE Answer(r, IF IsPsycopg2Error(exc[r]) THEN "500" ELSE "uncaught", <<>>)

\* ------------------------------------------------------------ specification

Next ==
    \/ \E u \in Users : Connect(u)
    \/ \E u \in Users : CmExcept(u)
    \/ \E u \in Users : CmFinally(u)
    \/ init_db_ping
    \/ init_db_create_table
    \/ init_db_commit
    \/ init_db_exit
    \/ \E r \in Callers : Arrive(r)
    \/ \E r \in Callers : Dispatch(r)
    \/ \E r \in Callers : add_coordinate_execute(r)
    \/ \E r \in Callers : add_coordinate_fetchone(r)
    \/ \E r \in Callers : add_coordinate_commit(r)
    \/ \E r \in Callers : add_coordinate_exit(r)
    \/ \E r \in Callers : delete_coordinate_execute(r)
    \/ \E r \in Callers : delete_coordinate_rowcount(r)
    \/ \E r \in Callers : delete_coordinate_commit(r)
    \/ \E r \in Callers : delete_coordinate_exit(r)
    \/ \E r \in Callers : get_all_coordinates_execute(r)
    \/ \E r \in Callers : get_all_coordinates_fetchall(r)
    \/ \E r \in Callers : get_all_coordinates_exit(r)

Spec == Init /\ [][Next]_vars

\* ------------------------------------------------------------------ claims

StrictlyIncreasing(s) == \A i, j \in 1..Len(s) : i < j => s[i] < s[j]

Answered(kind) == last.status # "none" /\ last.req.kind = kind

InStorageCall(u) ==
    pc[u] \in {"connect", "execute", "fetchone", "fetchall", "commit"}

\* C1: a DELETE of an id that is in the table (the store not failing during
\* the request) answers 204 and removes exactly that row; no later list
\* shows a deleted id and the deleted id never comes back into the table; a
\* DELETE of an id already deleted never answers 204 and, the store not
\* failing, answers 404.
DeleteExistingThenGone ==
    /\ (Answered("delete") /\ last.req.id \in Ids(last.before.table) /\ ~last.faulted)
          => /\ last.status = "204"
             /\ last.after = {x \in last.before.table : x.id # last.req.id}
    /\ (Answered("list") /\ last.status = "200")
          => \A i \in 1..Len(last.body) : last.body[i].id \notin last.before.deleted
    /\ (running = {} => deleted \cap Ids(table) = {})
    /\ (Answered("delete") /\ last.req.id \in last.before.deleted)
          => /\ last.status # "204"
             /\ (~last.faulted => last.status = "404")

DeleteExistingThenGoneWitness ==
    /\ Answered("delete")
    /\ last.req.id \in last.before.deleted
    /\ last.status = "404"

\* C2: a DELETE of an id that is not in the table (negative, never assigned
\* or already deleted) never answers 204, answers 404 when the store does
\* not fail, and leaves the set of rows exactly as it was.
DeleteMissingIsNotFound ==
    (Answered("delete") /\ last.req.id \notin Ids(last.before.table))
       => /\ last.status # "204"
          /\ (~last.faulted => last.status = "404")
          /\ last.after = last.before.table

DeleteMissingIsNotFoundWitness ==
    /\ Answered("delete")
    /\ last.req.id = -1
    /\ last.status = "404"
    /\ last.before.table # {}

\* C3: a successful GET /coordinates returns the rows of the table, each
\* once, in strictly ascending id order (the empty sequence for an empty
\* table); with no deletion so far these are the rows present at startup
\* plus one per successful creation; a list request never changes the table.
ListReturnsAllAscending ==
    /\ (Answered("list") /\ last.status = "200")
          => /\ \A i, j \in 1..Len(last.body) :
                   i < j => last.body[i].id < last.body[j].id
             /\ Range(last.body) = last.before.table
             /\ (last.before.table = {} => last.body = <<>>)
             /\ (last.before.deleted = {} =>
                   /\ Len(last.body) = Cardinality(preRows) + Len(last.before.returned)
                   /\ Ids(Range(last.body)) = Ids(preRows) \cup Range(last.before.returned))
    /\ (Answered("list") => last.after = last.before.table)

ListReturnsAllAscendingWitness ==
    /\ Answered("list")
    /\ last.status = "200"
    /\ last.before.deleted = {}
    /\ Len(last.before.returned) = 1
    /\ Len(last.body) = 2

\* C4: the id a 201 response carries was never handed out before: not to a
\* row present or deleted before the process started, not to an earlier
\* create (answered or failed), not to a row since deleted; ids are handed
\* out, and answered, in strictly increasing order.
IdsNeverReused ==
    /\ StrictlyIncreasing(issued)
    /\ StrictlyIncreasing(returned)
    /\ Range(returned) \subseteq Range(issued)
    /\ \A i \in Range(issued) : i > preSeq /\ \A x \in preRows : i > x.id
    /\ (Answered("add") /\ last.status = "201")
          => LET id == last.body[1].id
             IN  /\ id \notin Range(last.before.issued)
                 /\ id \notin Range(last.before.returned)
                 /\ id \notin last.before.deleted
                 /\ id \notin Ids(last.before.table)
                 /\ \A k \in Range(last.before.issued) : k < id

IdsNeverReusedWitness ==
    /\ Answered("add")
    /\ last.status = "201"
    /\ Len(last.before.issued) = 1
    /\ last.before.returned = <<>>

\* C5: creates answered 201 carry pairwise distinct ids and each created
\* row is in the table when its response is sent and stays there until a
\* DELETE of it is answered 204 -- in particular for creates that were
\* outstanding at the same time.
ParallelCreatesDistinctAndKept ==
    /\ \A i, j \in 1..Len(returned) : i # j => returned[i] # returned[j]
    /\ (running = {} => Range(returned) \subseteq Ids(table) \cup deleted)
    /\ (Answered("add") /\ last.status = "201")
          => /\ last.body[1] \in last.after
             /\ last.body[1].latitude = last.req.body.latitude
             /\ last.body[1].longitude = last.req.body.longitude
             /\ last.body[1].name = last.req.body.name
             /\ \A m \in last.met :
                   /\ m # last.body[1].id
                   /\ m \in Ids(last.after) \cup last.before.deleted

ParallelCreatesDistinctAndKeptWitness ==
    /\ Answered("add")
    /\ last.status = "201"
    /\ last.met # {}
    /\ Cardinality(last.after) >= 2

\* C6: while one request is inside a storage call, a waiting request can be
\* started (its handler can enter its own storage call on its own
\* connection).
NotSerializedByProcess ==
    \A q \in running : \A r \in Callers :
        (InStorageCall(q) /\ pc[r] = "pending") => ENABLED Dispatch(r)

\* C7: an open connection is held by exactly one user, the one that opened
\* it and is still inside its with-block; when a handler (or init_db) leaves
\* get_db_connection its connection is closed, whichever way it leaves; a
\* failed connect opens nothing.
ConnectionsReleased ==
    /\ \A c \in open : \E u \in Users :
          /\ Active(u)
          /\ pc[u] \notin {"connect", "exit"}
          /\ conn[u] = c
          /\ opener[c] = u
    /\ \A u, v \in Users : (u # v /\ conn[u] # NoConn) => conn[u] # conn[v]
    /\ \A u \in Users : pc[u] \in {"exit", "done", "idle", "pending"} => conn[u] \notin open
    /\ \A c \in ConnIds \ open : txn[c] = EmptyTxn
    /\ ((running = {} /\ phase # "starting") => open = {})

\* the rollback itself failed, and the connection is closed all the same
ConnectionsReleasedWitness ==
    \E r \in Callers :
        /\ pc[r] = "exit"
        /\ conn[r] # NoConn
        /\ exc[r] = "OperationalError"
        /\ open = {}

\* C8: the process serves only if init_db returned without raising: a
\* failure of connect, SELECT 1, CREATE TABLE or commit ends in "failed",
\* where no request is ever accepted; a successful startup leaves the rows
\* the store already had, and the table exists.
ServesOnlyAfterStartup ==
    /\ (phase = "serving" => ~faulted[InitDb] /\ tableExists /\ pc[InitDb] = "done")
    /\ ((faulted[InitDb] /\ pc[InitDb] = "done") => phase = "failed")
    /\ (phase # "serving" =>
          /\ nreq = 0
          /\ last = NoResponse
          /\ running = {}
          /\ \A r \in Callers : pc[r] = "idle")
    /\ (nreq = 0 => table = preRows)
    /\ (phase = "failed" => table = preRows)

ServesOnlyAfterStartupWitness ==
    /\ phase = "serving"
    /\ nreq = 0
    /\ preRows # {}

\* C9: a request during which a storage call raised is answered 500: never
\* 200/201/204, never 404, never an exception that escapes the handler.
StorageFailureIs500 ==
    /\ last.status # "uncaught"
    /\ (last.faulted => last.status = "500")

StorageFailureIs500Witness ==
    /\ Answered("delete")
    /\ last.faulted
    /\ last.status = "500"
    /\ last.req.id \in Ids(last.before.table)

\* C10: a create or delete that is answered with an error leaves the set
\* of rows as it was; the committed table changes only in a handler that
\* committed, and that handler then answers success.
FailedWriteLeavesTable ==
    /\ (last.status \notin {"none", "201", "204"} => last.after = last.before.table)
    /\ (last.after # last.before.table => last.status \in {"201", "204"})
    /\ \A r \in running :
          table # started.table
             => pc[r] \in {"cm_finally", "exit"} /\ exc[r] = "none"

\* an INSERT had run (its id was drawn) and the request still failed
FailedWriteLeavesTableWitness ==
    /\ Answered("add")
    /\ last.status = "500"
    /\ Len(issued) > Len(last.before.issued)
    /\ last.after = last.before.table

====
